---- MODULE Spec2Model ----
(***************************************************************************)
(* The growable entity-component store ecs::ECSManager<TComponents...>     *)
(* (EcsCpp.h): slot allocator, per-slot presence flags, component columns, *)
(* per-type component ranges, and the System / SystemIterator views with   *)
(* their partitioning.  Slots are numbered from 0 as in the source, so the *)
(* entity table and the columns are functions over 0 .. size-1.            *)
(* The fixed-capacity store of EntityComponentSystem.h (std::array of      *)
(* NumberOfSlots slots) is modelled beside it, as the record `bounded`.    *)
(***************************************************************************)
EXTENDS Integers, FiniteSets, Sequences, TLC

VARIABLES
    TComponents,      \* the component types the store is declared with
    endSlot,          \* size_t endSlot
    nrEntities,       \* size_t nrEntities
    entities,         \* EntitiesSlots entities (std::vector<Entity>)
    componentArrays,  \* ComponentMatrix componentArrays (one std::vector per type)
    componentRanges,  \* ComponentRanges componentRanges (one ComponentRange per type)
    everAdded,        \* per type, the slots on which Add<T> has succeeded so far
    system,           \* a System object the caller holds (or NoSystem)
    mutated,          \* has the structure changed since `system` was constructed
    workers,          \* the std::async tasks of the partitioned parallel loop
    bounded,          \* the fixed-capacity store (EntityComponentSystem.h), a record
    ops,              \* number of calls made so far
    ret               \* outcome of the last call: returned value or exception

store == <<endSlot, nrEntities, entities, componentArrays, componentRanges, everAdded>>
vars == <<TComponents, endSlot, nrEntities, entities, componentArrays, componentRanges,
          everAdded, system, mutated, workers, bounded, ops, ret>>

(* ---- bounds of the model ---- *)
MaxSlots == 3      \* the entity vector is not grown beyond this length
MaxValue == 2      \* component values written by callers are 1 .. MaxValue
MaxParts == 3      \* totalParts ranges over 1 .. MaxParts
MaxOps == 7        \* length of the call sequences explored
MaxHeldOps == 6    \* the same, while the caller keeps a System object
MaxBuildOps == 4   \* calls made before the parallel loop is started
MaxAccessOps == 4  \* the same, with BuildEntity, Get and Has among the calls
MaxBoundedOps == 6 \* length of the call sequences on the fixed-capacity store
MaxStoresOps == 6  \* the same, when both stores are driven side by side
MaxWriteOps == 5    \* the same, with loops that assign through the tuples
MaxTaggedOps == 5   \* the same, on the store declared with EntityID
MaxTableOps == 6    \* the same, with loops over the entity table itself

(* ECSManager::NumberOfSlots of the fixed-capacity store is 1024; the model *)
(* keeps the code's comparisons and scales the capacity down.               *)
NumberOfSlots == 3

(* size_t's largest value; only its order relative to slot indices is used, *)
(* so it is scaled to the checker's integer width.                          *)
SIZE_MAX == 2147483647

Types == TComponents                 \* ECSManager<TComponents...>
TypeSets == (SUBSET Types) \ {{}}     \* NonVoidArgs<TSystemComponents...>
Values == 1 .. MaxValue
DefaultValue == 0                     \* T{} pushed by PushToVector
\* EntityID{} holds the sentinel id
DefaultOf(T) == IF T = "EntityID" THEN SIZE_MAX ELSE DefaultValue
Handles == (0 .. MaxSlots) \cup {SIZE_MAX}

Min(a, b) == IF a < b THEN a ELSE b
Max(a, b) == IF a > b THEN a ELSE b

ContainerSize == Cardinality(DOMAIN entities)

NoSystem == [held |-> FALSE]
NoWorkers == [started |-> FALSE]
NoId == SIZE_MAX

Ret(op, status, id, out) == [op |-> op, status |-> status, id |-> id, out |-> out]

NewEntity(slot) ==
    [activeComponents |-> [T \in Types |-> FALSE], active |-> FALSE, id |-> slot]

NewComponentRange == [componentPresent |-> FALSE, firstSlot |-> SIZE_MAX, lastSlot |-> 0]

\* the fixed-capacity store after ECSManager::ECSManager(): std::arrays of
\* NumberOfSlots records, every entity carrying its own index as id
NewBounded ==
    [endSlot |-> 0,
     nrEntities |-> 0,
     entities |-> [i \in 0 .. NumberOfSlots - 1 |-> NewEntity(i)],
     componentArrays |-> [T \in Types |-> [i \in 0 .. NumberOfSlots - 1 |-> DefaultValue]]]

InitWith(types) ==
    /\ TComponents = types
    /\ endSlot = 0
    /\ nrEntities = 0
    /\ entities = [i \in {} |-> NewEntity(i)]
    /\ componentArrays = [T \in Types |-> [i \in {} |-> DefaultOf(T)]]
    /\ componentRanges = [T \in Types |-> NewComponentRange]
    /\ everAdded = [T \in Types |-> {}]
    /\ system = NoSystem
    /\ mutated = FALSE
    /\ workers = NoWorkers
    /\ bounded = NewBounded
    /\ ops = 0
    /\ ret = Ret("none", "ok", NoId, <<>>)

\* ecs::ECSManager<int, float> ecs;
Init == InitWith({"int", "float"})

\* a store declared with EntityID among its types, as the
\* ecs::ECSManager<int, float, ecs::EntityID> of TEST(ECS, SystemPartValidateID);
\* one other type is kept
InitTagged == InitWith({"int", "EntityID"})

(* ---- private helpers of ECSManager ---- *)

\* EntityID::operator bool accepting every id
ValidEntityID_AnyId(id) == id = id

\* EntityID::operator bool
ValidEntityID(id) == id # SIZE_MAX

\* ValidateID: throws std::out_of_range when index >= endSlot
ValidIndex(index) == index < endSlot

\* GetEntity checking the index against entities.size(), as HasEntity does
GetEntity_AgainstSize(index) == index < ContainerSize

\* GetEntity(index): ValidateID(index) before entities[index] is handed out;
\* throws std::out_of_range when this is false
GetEntity(index) == ValidIndex(index)

\* HasInternal with one flag shared by all the types of the entity
HasInternal_AnyType(T, id) == \E U \in Types : entities[id].activeComponents[U]

\* HasInternal<T>(entityId): the presence flag, read without any range check
HasInternal(T, id) == entities[id].activeComponents[T]

\* GetLastSlot without the step back from endSlot
GetLastSlot_OnePast == endSlot

\* GetLastSlot stepping back twice from endSlot
GetLastSlot_BelowLast == IF endSlot <= 1 THEN 0 ELSE endSlot - 2

\* GetLastSlot
GetLastSlot == IF endSlot = 0 THEN 0 ELSE endSlot - 1

\* the scan of GetFirstEmptySlot stopping where it starts
ScanEmptySlot_NoScan(slot) == slot

\* GetFirstEmptySlot: the scan part; the caller advances endSlot when the
\* scan stops at endSlot
RECURSIVE ScanEmptySlot(_)
ScanEmptySlot(slot) ==
    IF slot < endSlot /\ entities[slot].active THEN ScanEmptySlot(slot + 1) ELSE slot

\* GetFirstEmptySlot without the scan: always the frontier
GetFirstEmptySlot_NoReuse == endSlot

GetFirstEmptySlot == ScanEmptySlot(0)

\* push_back that appends the element twice
PushBack_Twice(f, x) ==
    [i \in 0 .. Cardinality(DOMAIN f) + 1 |-> IF i \in DOMAIN f THEN f[i] ELSE x]

\* std::vector::push_back on a table indexed from 0
PushBack(f, x) ==
    LET n == Cardinality(DOMAIN f)
    IN [i \in 0 .. n |-> IF i < n THEN f[i] ELSE x]

\* AddEntity on the slot's record without the clearing of the flags
Activate_KeepComponents(entity) == [entity EXCEPT !.active = TRUE]

\* AddEntity on the slot's record: entity.active = true and every
\* activeComponents flag set to false
Activate(entity) ==
    [entity EXCEPT !.active = TRUE, !.activeComponents = [T \in Types |-> FALSE]]

\* UpdateComponentRange<T>(entityId), applied to T's ComponentRange
UpdateComponentRange(range, id) ==
    IF ~range.componentPresent
    THEN [componentPresent |-> TRUE,
          firstSlot |-> Min(id, range.firstSlot),
          lastSlot |-> Max(id, range.lastSlot)]
    ELSE [range EXCEPT !.lastSlot = id]

(* ---- entity and component operations ---- *)

\* a successful structural mutation is seen by a System constructed earlier
Mutation == mutated' = (system.held \/ mutated) /\ UNCHANGED <<system, workers>>
NoMutation == UNCHANGED <<system, mutated, workers>>

\* the allocator's state, as the caller can observe it: the frontier, Size()
\* and the slots that are active
Snapshot ==
    [endSlot |-> endSlot, nrEntities |-> nrEntities,
     active |-> {s \in DOMAIN entities : entities[s].active}]

\* when the call made directly before RemoveEntity(entityId) was the AddEntity
\* that returned entityId: what the allocator was before that AddEntity
JustCreated(entityId) ==
    IF ret.op = "AddEntity" /\ ret.id = entityId THEN <<ret.out.before>> ELSE <<>>

\* the entity removed by the call made directly before this one, if any
JustRemoved ==
    IF ret.op = "RemoveEntity" /\ ret.status = "ok" THEN ret.id ELSE NoId

\* (Add<TEntityComponents>(id, args), ...): the calls of Add in argument order,
\* on the store `st` that AddEntity left; the first that throws ends the fold
RECURSIVE BuildAdds(_, _, _)
BuildAdds(st, id, args) ==
    IF args = <<>> THEN st
    ELSE LET T == Head(args).type
         IN IF ~ValidEntityID(id) THEN [st EXCEPT !.status = "logic_error"]
            ELSE IF ~(id < st.endSlot) THEN [st EXCEPT !.status = "out_of_range"]
            ELSE IF st.entities[id].activeComponents[T]
            THEN [st EXCEPT !.status = "logic_error"]
            ELSE BuildAdds([st EXCEPT
                               !.entities[id].activeComponents[T] = TRUE,
                               !.componentArrays[T][id] = Head(args).value,
                               !.componentRanges[T] = UpdateComponentRange(@, id),
                               !.everAdded[T] = @ \cup {id}],
                           id, Tail(args))

\* The store AddEntity leaves, with the slot it took.  In a store declared with
\* EntityID among its types the `if constexpr` branch runs
\* Add<EntityID>(entity.id, entity.id) on the new entity.
Created ==
    LET slot == GetFirstEmptySlot
        grow == slot = ContainerSize
        slots == IF grow THEN PushBack(entities, NewEntity(slot)) ELSE entities
        activated ==
            [endSlot |-> IF slot = endSlot THEN endSlot + 1 ELSE endSlot,
             entities |-> [slots EXCEPT ![slot] = Activate(@)],
             componentArrays |->
                 IF grow
                 THEN [T \in Types |-> PushBack(componentArrays[T], DefaultOf(T))]
                 ELSE componentArrays,
             componentRanges |-> componentRanges,
             everAdded |-> everAdded,
             status |-> "ok",
             slot |-> slot,
             grow |-> grow]
    IN IF "EntityID" \in Types
       THEN BuildAdds(activated, slot, <<[type |-> "EntityID", value |-> slot]>>)
       ELSE activated

AddEntity ==
    LET created == Created
    IN /\ created.grow => ContainerSize < MaxSlots
       /\ endSlot' = created.endSlot
       /\ entities' = created.entities
       /\ componentArrays' = created.componentArrays
       /\ componentRanges' = created.componentRanges
       /\ everAdded' = created.everAdded
       /\ nrEntities' = nrEntities + 1
       /\ ret' = Ret("AddEntity", "ok", created.slot,
                     [after |-> JustRemoved, before |-> Snapshot])
       /\ Mutation

Add(T, entityId, component) ==
    IF ~ValidEntityID(entityId)
    THEN /\ ret' = Ret("Add", "logic_error", NoId, <<>>)
         /\ UNCHANGED store /\ NoMutation
    ELSE IF ~GetEntity(entityId)
    THEN /\ ret' = Ret("Add", "out_of_range", NoId, <<>>)
         /\ UNCHANGED store /\ NoMutation
    ELSE IF HasInternal(T, entityId)
    THEN /\ ret' = Ret("Add", "logic_error", NoId, <<>>)
         /\ UNCHANGED store /\ NoMutation
    ELSE IF ~ValidIndex(entityId)
    THEN \* GetComponentData's ValidateID, reached after isActive = true
         /\ entities' = [entities EXCEPT ![entityId].activeComponents[T] = TRUE]
         /\ UNCHANGED <<endSlot, nrEntities, componentArrays, componentRanges, everAdded>>
         /\ ret' = Ret("Add", "out_of_range", NoId, <<>>)
         /\ Mutation
    ELSE /\ entities' = [entities EXCEPT ![entityId].activeComponents[T] = TRUE]
         /\ componentArrays' = [componentArrays EXCEPT ![T][entityId] = component]
         /\ componentRanges' = [componentRanges EXCEPT
                                   ![T] = UpdateComponentRange(@, entityId)]
         /\ everAdded' = [everAdded EXCEPT ![T] = @ \cup {entityId}]
         /\ UNCHANGED <<endSlot, nrEntities>>
         /\ ret' = Ret("Add", "ok", entityId, <<>>)
         /\ Mutation

\* RemoveEntity that also resets the slot's presence flags
RemoveEntity_ClearsFlags(entityId) ==
    IF ValidEntityID(entityId) /\ GetEntity(entityId) /\ entities[entityId].active
    THEN /\ entities' = [entities EXCEPT ![entityId] = NewEntity(entityId)]
         /\ endSlot' = IF GetLastSlot = entities[entityId].id THEN endSlot - 1 ELSE endSlot
         /\ nrEntities' = nrEntities - 1
         /\ UNCHANGED <<componentArrays, componentRanges, everAdded>>
         /\ ret' = Ret("RemoveEntity", "ok", entityId, <<>>)
         /\ Mutation
    ELSE /\ ret' = Ret("RemoveEntity", "logic_error", NoId, <<>>)
         /\ UNCHANGED store /\ NoMutation

RemoveEntity(entityId) ==
    IF ~ValidEntityID(entityId)
    THEN /\ ret' = Ret("RemoveEntity", "logic_error", NoId, <<>>)
         /\ UNCHANGED store /\ NoMutation
    ELSE IF ~GetEntity(entityId)
    THEN /\ ret' = Ret("RemoveEntity", "out_of_range", NoId, <<>>)
         /\ UNCHANGED store /\ NoMutation
    ELSE IF ~entities[entityId].active
    THEN /\ ret' = Ret("RemoveEntity", "logic_error", NoId, <<>>)
         /\ UNCHANGED store /\ NoMutation
    ELSE /\ entities' = [entities EXCEPT ![entityId].active = FALSE]
         /\ endSlot' = IF GetLastSlot = entities[entityId].id THEN endSlot - 1 ELSE endSlot
         /\ nrEntities' = nrEntities - 1
         /\ UNCHANGED <<componentArrays, componentRanges, everAdded>>
         /\ ret' = Ret("RemoveEntity", "ok", entityId, [created |-> JustCreated(entityId)])
         /\ Mutation

Remove(T, entityId) ==
    IF ~ValidEntityID(entityId)
    THEN /\ ret' = Ret("Remove", "logic_error", NoId, <<>>)
         /\ UNCHANGED store /\ NoMutation
    ELSE IF ~GetEntity(entityId)
    THEN /\ ret' = Ret("Remove", "out_of_range", NoId, <<>>)
         /\ UNCHANGED store /\ NoMutation
    ELSE IF ~HasInternal(T, entityId)
    THEN /\ ret' = Ret("Remove", "logic_error", NoId, <<>>)
         /\ UNCHANGED store /\ NoMutation
    ELSE /\ entities' = [entities EXCEPT ![entityId].activeComponents[T] = FALSE]
         /\ UNCHANGED <<endSlot, nrEntities, componentArrays, componentRanges, everAdded>>
         /\ ret' = Ret("Remove", "ok", entityId, <<>>)
         /\ Mutation

(* ---- BuildEntity, Get, Has ---- *)

\* the arguments of BuildEntity: one or two components, each a type and a value
BuildArgs ==
    LET arg == [type : Types, value : Values]
    IN {<<a>> : a \in arg} \cup {<<a, b>> : a \in arg, b \in arg}

\* BuildEntity(args...): auto id = AddEntity(); then Add for each argument
BuildEntity(args) ==
    LET created == Created
        slot == created.slot
        built == BuildAdds(created, slot, args)
    IN /\ created.grow => ContainerSize < MaxSlots
       /\ endSlot' = built.endSlot
       /\ nrEntities' = nrEntities + 1
       /\ entities' = built.entities
       /\ componentArrays' = built.componentArrays
       /\ componentRanges' = built.componentRanges
       /\ everAdded' = built.everAdded
       /\ ret' = Ret("BuildEntity", built.status,
                     IF built.status = "ok" THEN slot ELSE NoId,
                     [args |-> args, slot |-> slot])
       /\ Mutation

\* Get<T>(entityId) without the test of the presence flag
GetOutcomes_NoPresenceCheck(T, entityId) ==
    IF ~ValidEntityID(entityId) THEN {[status |-> "logic_error", value |-> DefaultValue]}
    ELSE IF ~ValidIndex(entityId) THEN {[status |-> "out_of_range", value |-> DefaultValue]}
    ELSE {[status |-> "ok", value |-> componentArrays[T][entityId]]}

\* Get<T>(entityId): what the call can give.  ReadComponent indexes the vector
\* without a check, so an id at or beyond entities.size() is read outside the
\* storage: the build faults, or reads a garbage flag (false: the not-present
\* error; true: GetComponentData's ValidateID throws).
GetOutcomes(T, entityId) ==
    IF ~ValidEntityID(entityId) THEN {[status |-> "logic_error", value |-> DefaultValue]}
    ELSE IF entityId >= ContainerSize
    THEN {[status |-> st, value |-> DefaultValue] :
             st \in {"fault", "invalid_argument", "out_of_range"}}
    ELSE IF ~HasInternal(T, entityId)
    THEN {[status |-> "invalid_argument", value |-> DefaultValue]}
    ELSE IF ~ValidIndex(entityId)
    THEN {[status |-> "out_of_range", value |-> DefaultValue]}
    ELSE {[status |-> "ok", value |-> componentArrays[T][entityId]]}

Get(T, entityId) ==
    /\ \E o \in GetOutcomes(T, entityId) :
          ret' = Ret("Get", o.status, IF o.status = "ok" THEN entityId ELSE NoId,
                     [type |-> T, value |-> o.value])
    /\ UNCHANGED store /\ NoMutation

\* Has<TEntityComponents...>(entityId): what the call can give; the flags are
\* read through ReadComponent, outside the storage for an id at or beyond
\* entities.size()
HasOutcomes(types, entityId) ==
    IF ~ValidEntityID(entityId) THEN {[status |-> "logic_error", value |-> FALSE]}
    ELSE IF entityId >= ContainerSize
    THEN {[status |-> "fault", value |-> FALSE]}
         \cup {[status |-> "ok", value |-> b] : b \in BOOLEAN}
    ELSE {[status |-> "ok", value |-> \A T \in types : HasInternal(T, entityId)]}

HasCall(types, entityId) ==
    /\ \E o \in HasOutcomes(types, entityId) :
          ret' = Ret("Has", o.status, IF o.status = "ok" THEN entityId ELSE NoId,
                     [types |-> types, value |-> o.value])
    /\ UNCHANGED store /\ NoMutation

\* HasEntity checking the id against endSlot instead of entities.size()
HasEntityOutcome_AgainstFrontier(entityId) ==
    IF ~ValidEntityID(entityId) THEN [status |-> "logic_error", value |-> FALSE]
    ELSE IF entityId >= endSlot THEN [status |-> "out_of_range", value |-> FALSE]
    ELSE [status |-> "ok", value |-> entities[entityId].active]

\* HasEntity(entityId): what the call gives
HasEntityOutcome(entityId) ==
    IF ~ValidEntityID(entityId) THEN [status |-> "logic_error", value |-> FALSE]
    ELSE IF entityId >= ContainerSize THEN [status |-> "out_of_range", value |-> FALSE]
    ELSE [status |-> "ok", value |-> entities[entityId].active]

HasEntity(entityId) ==
    /\ LET o == HasEntityOutcome(entityId)
       IN ret' = Ret("HasEntity", o.status, IF o.status = "ok" THEN entityId ELSE NoId,
                     [value |-> o.value])
    /\ UNCHANGED store /\ NoMutation

\* Size() giving the frontier instead of the count
Size_Frontier == endSlot

\* Size()
Size == nrEntities

(* ---- System<TSystemComponents...>: construction ---- *)

\* Has<TEntityComponents...>(entityId), for a valid id naming an allocated slot
Has(types, id) == \A T \in types : HasInternal(T, id)

\* HasGivenComponents<TSystemComponents...>(it)
HasGivenComponents(types, slot) ==
    entities[slot].active /\ Has(types, entities[slot].id)

\* the std::max / std::min folds of GetSystemFilterMatch
MaxOf(S, start) == CHOOSE m \in S \cup {start} : \A x \in S \cup {start} : m >= x
MinOf(S, start) == CHOOSE m \in S \cup {start} : \A x \in S \cup {start} : m <= x

\* GetSystemFilterMatch<TSystemComponents...>(): std::optional<ComponentRangesMatch>
GetSystemFilterMatch(types) ==
    LET present == {T \in types : componentRanges[T].componentPresent}
    IN IF present = {}
       THEN [found |-> FALSE, firstSlot |-> SIZE_MAX, lastSlot |-> 0]
       ELSE [found |-> TRUE,
             firstSlot |-> MaxOf({componentRanges[T].firstSlot : T \in present}, 0),
             lastSlot |-> MinOf({componentRanges[T].lastSlot : T \in present}, SIZE_MAX)]

\* System::ValidateInvariant: throws std::logic_error when this is false
ValidateInvariant(match) == ~(match.found /\ match.firstSlot > match.lastSlot)

\* System::System(ecs, part, totalParts)
NewSystem(types, part, totalParts) ==
    [held |-> TRUE, types |-> types, part |-> part, totalParts |-> totalParts,
     componentRangesMatch |-> GetSystemFilterMatch(types)]

(* ---- System: iterator positions, as offsets from entities.begin() ---- *)

partSize(sys) == ContainerSize \div sys.totalParts

hasRemainder(sys) == ContainerSize % sys.totalParts # 0

endIteratorOffset(sys) ==
    IF hasRemainder(sys) /\ sys.part = sys.totalParts - 1
    THEN 0
    ELSE ContainerSize - (sys.part + 1) * partSize(sys)

beginIteratorOffset(sys) == sys.part * partSize(sys)

\* ECSManager::end() is entities.begin() + endSlot
ecsEnd(sys) ==
    endSlot - endIteratorOffset(sys)
        - (IF sys.componentRangesMatch.found
           THEN ContainerSize - 1 - sys.componentRangesMatch.lastSlot
           ELSE 0)

\* ECSManager::begin() is entities.begin()
ecsBegin(sys) ==
    0 + beginIteratorOffset(sys)
      + (IF sys.componentRangesMatch.found THEN sys.componentRangesMatch.firstSlot ELSE 0)

(* ---- SystemIterator: the walk ---- *)

\* The loop shared by System::begin and SystemIterator::operator++:
\*   while (begin != end) { if (HasGivenComponents(begin)) break; begin++; }
\* A position at or beyond the vector's length is read outside the storage.
RECURSIVE Seek(_, _, _)
Seek(types, pos, end) ==
    IF pos = end THEN [pos |-> pos, outside |-> FALSE]
    ELSE IF pos >= ContainerSize THEN [pos |-> pos, outside |-> TRUE]
    ELSE IF HasGivenComponents(types, pos) THEN [pos |-> pos, outside |-> FALSE]
    ELSE Seek(types, pos + 1, end)

\* SystemIterator::operator*: GetSeveral<Ts...>(begin->id), that is Get<T>(id) for
\* each requested T: std::invalid_argument when T is not present, then
\* GetComponentData's ValidateID
Deref(types, id) ==
    IF \E T \in types : ~HasInternal(T, id) THEN "invalid_argument"
    ELSE IF ~ValidIndex(id) THEN "out_of_range"
    ELSE "ok"

\* for (it = begin(); it != end(); ++it) { auto [...] = *it; }
\* the slots whose tuple the loop body is handed, and how the loop ends:
\* "end" (it reached end()), "outside" (it read outside the storage) or the
\* exception operator* threw
RECURSIVE Visit(_, _, _)
Visit(types, pos, end) ==
    LET at == Seek(types, pos, end)
    IN IF at.outside THEN [yield |-> <<>>, status |-> "outside"]
       ELSE IF at.pos = end THEN [yield |-> <<>>, status |-> "end"]
       ELSE IF Deref(types, entities[at.pos].id) # "ok"
       THEN [yield |-> <<>>, status |-> Deref(types, entities[at.pos].id)]
       ELSE LET rest == Visit(types, at.pos + 1, end)
            IN [yield |-> <<at.pos>> \o rest.yield, status |-> rest.status]

\* System::begin: with no componentRangesMatch it returns end()
Walk(sys) ==
    IF ~sys.componentRangesMatch.found
    THEN [yield |-> <<>>, status |-> "end"]
    ELSE Visit(sys.types, ecsBegin(sys), ecsEnd(sys))

\* Reading an Entity outside the vector's storage is undefined.  The builds
\* either fault there, or read a garbage record whose `active` byte is set and
\* whose id names some slot g: Has<...>(g) decides whether the iterator stops,
\* and operator* then runs Get<T>(g), whose ValidateID throws when g >= endSlot.
Outcomes(sys) ==
    LET w == Walk(sys)
        garbage == {g \in DOMAIN entities : Has(sys.types, g)}
    IN IF w.status # "outside"
       THEN {w}
       ELSE {[status |-> "fault", yield |-> w.yield]}
            \cup {[status |-> "fault", yield |-> Append(w.yield, g)] :
                     g \in {x \in garbage : ValidIndex(x)}}
            \cup {[status |-> "out_of_range", yield |-> w.yield] :
                     g \in {x \in garbage : ~ValidIndex(x)}}

(* ---- view operations ---- *)

\* auto system = ecs.GetSystemPart<Ts...>(part, totalParts); GetSystem is (0, 1)
GetSystemPart(types, part, totalParts) ==
    LET sys == NewSystem(types, part, totalParts)
    IN /\ UNCHANGED <<store, workers>>
       /\ IF ValidateInvariant(sys.componentRangesMatch)
          THEN /\ system' = sys
               /\ mutated' = FALSE
               /\ ret' = Ret("GetSystemPart", "ok", NoId, <<>>)
          ELSE /\ UNCHANGED <<system, mutated>>
               /\ ret' = Ret("GetSystemPart", "logic_error", NoId, <<>>)

\* std::for_each(system.begin(), system.end(), ...) on the System held
Iterate ==
    /\ system.held
    /\ \E o \in Outcomes(system) :
          ret' = Ret("Iterate", o.status, NoId, o.yield)
    /\ UNCHANGED <<store, system, mutated, workers>>

\* for (part = 0; part < totalParts; part++)
\*     for (auto [...] : ecs.GetSystemPart<Ts...>(part, totalParts)) n++;
\* The loop stops at the first part whose construction throws or whose walk
\* does not come to its end().
RECURSIVE LoopFrom(_, _, _)
LoopFrom(types, part, totalParts) ==
    IF part = totalParts THEN {<<>>}
    ELSE LET sys == NewSystem(types, part, totalParts)
         IN IF ~ValidateInvariant(sys.componentRangesMatch)
            THEN {<<[status |-> "logic_error", yield |-> <<>>]>>}
            ELSE UNION {IF o.status = "end"
                        THEN {<<o>> \o rest : rest \in LoopFrom(types, part + 1, totalParts)}
                        ELSE {<<o>>} : o \in Outcomes(sys)}

LoopParts(types, totalParts) ==
    /\ \E run \in LoopFrom(types, 0, totalParts) :
          ret' = Ret("LoopParts",
                     IF \A i \in 1 .. Len(run) : run[i].status = "end" THEN "ok"
                     ELSE run[Len(run)].status,
                     NoId,
                     [types |-> types, totalParts |-> totalParts, parts |-> run])
    /\ UNCHANGED <<store, system, mutated, workers>>

\* the type lists a view can be requested with: the same types in either order
TypeSeqs ==
    {<<T>> : T \in Types} \cup {q \in Types \X Types : q[1] # q[2]}

\* GetSeveral with the references in reverse order
GetSeveral_Reversed(typeSeq, entityId) ==
    [k \in 1 .. Len(typeSeq) |->
        [type |-> typeSeq[Len(typeSeq) + 1 - k], slot |-> entityId]]

\* std::forward_as_tuple(Get<TComponentsRequested>(entityId)...): one reference
\* per requested type, in the order of the template arguments; a reference is
\* the column it points into and the index in that column
GetSeveral(typeSeq, entityId) ==
    [k \in 1 .. Len(typeSeq) |-> [type |-> typeSeq[k], slot |-> entityId]]

\* for (auto t : ecs.GetSystem<Ts...>()) { std::get<k-1>(t) = value; }
\* The body assigns through the k-th reference of the tuple operator* returned
\* for every slot the loop is handed, until the loop ends or dies.
ForEachAssign(typeSeq, k, value) ==
    LET types == {typeSeq[j] : j \in 1 .. Len(typeSeq)}
        sys == NewSystem(types, 0, 1)
    IN /\ UNCHANGED <<endSlot, nrEntities, entities, componentRanges, everAdded>>
       /\ NoMutation
       /\ IF ~ValidateInvariant(sys.componentRangesMatch)
          THEN /\ UNCHANGED componentArrays
               /\ ret' = Ret("ForEachAssign", "logic_error", NoId,
                             [types |-> typeSeq, index |-> k, value |-> value,
                              yield |-> <<>>])
          ELSE \E o \in Outcomes(sys) :
                  LET assigned == {GetSeveral(typeSeq, o.yield[n])[k] :
                                      n \in 1 .. Len(o.yield)}
                  IN /\ componentArrays' =
                           [T \in Types |->
                               [i \in DOMAIN componentArrays[T] |->
                                   IF [type |-> T, slot |-> i] \in assigned
                                   THEN value
                                   ELSE componentArrays[T][i]]]
                     /\ ret' = Ret("ForEachAssign",
                                   IF o.status = "end" THEN "ok" ELSE o.status,
                                   NoId,
                                   [types |-> typeSeq, index |-> k, value |-> value,
                                    yield |-> o.yield])

(* ---- the partitioned parallel loop (TEST(ECS, SystemPartConcurent)) ---- *)
\*   for (part = 0; part < totalParts; part++)
\*       std::async(std::launch::async, [&ecs, part, totalParts]() {
\*           for (auto [...] : ecs.GetSystemPart<Ts...>(part, totalParts)) { ... = value; }
\*       });
\* Each task is a record: pc is "start" (not yet run), "body" (handed the tuple
\* of `slot`), "end" (its loop reached end()), or the way it died; `pos` is the
\* iterator's position, `past` says that position lies outside the storage.

\* the value the task of `part` writes into every component it is handed
Written(part) == part + 1

\* where a task stands after System::begin or operator++ moved it to `at`
Landed(task, at, end) ==
    IF at.outside
    THEN {[task EXCEPT !.pc = "fault"]}
         \cup {[task EXCEPT !.pc = "body", !.slot = g, !.past = TRUE] :
                  g \in {x \in DOMAIN entities : Has(task.types, x) /\ ValidIndex(x)}}
         \cup {[task EXCEPT !.pc = "out_of_range"] :
                  g \in {x \in DOMAIN entities : Has(task.types, x) /\ ~ValidIndex(x)}}
    ELSE IF at.pos = end THEN {[task EXCEPT !.pc = "end"]}
    ELSE IF Deref(task.types, entities[at.pos].id) # "ok"
    THEN {[task EXCEPT !.pc = Deref(task.types, entities[at.pos].id)]}
    ELSE {[task EXCEPT !.pc = "body", !.slot = at.pos, !.pos = at.pos]}

StartParallel(types, totalParts) ==
    /\ ~workers.started
    /\ workers' = [started |-> TRUE,
                   before |-> componentArrays,
                   task |-> [part \in 0 .. totalParts - 1 |->
                               [types |-> types, part |-> part, totalParts |-> totalParts,
                                pc |-> "start", pos |-> 0, slot |-> 0, past |-> FALSE,
                                touched |-> {}]]]
    /\ ret' = Ret("StartParallel", "ok", NoId, <<>>)
    /\ UNCHANGED <<TComponents, store, system, mutated, bounded, ops>>

\* the task constructs its System and calls begin()
TaskBegin(part) ==
    /\ workers.started
    /\ part \in DOMAIN workers.task
    /\ workers.task[part].pc = "start"
    /\ LET task == workers.task[part]
           sys == NewSystem(task.types, part, task.totalParts)
           next == IF ~ValidateInvariant(sys.componentRangesMatch)
                   THEN {[task EXCEPT !.pc = "logic_error"]}
                   ELSE IF ~sys.componentRangesMatch.found
                   THEN {[task EXCEPT !.pc = "end"]}
                   ELSE Landed(task, Seek(task.types, ecsBegin(sys), ecsEnd(sys)), ecsEnd(sys))
       IN \E t \in next : workers' = [workers EXCEPT !.task[part] = t]
    /\ UNCHANGED <<TComponents, store, system, mutated, bounded, ops, ret>>

\* the loop body writes through the tuple, then operator++ moves on
TaskBody(part) ==
    /\ workers.started
    /\ part \in DOMAIN workers.task
    /\ workers.task[part].pc = "body"
    /\ LET task == workers.task[part]
           sys == NewSystem(task.types, part, task.totalParts)
           done == [task EXCEPT !.touched = @ \cup {task.slot}]
           next == IF task.past
                   THEN {[done EXCEPT !.pc = "fault"]}
                   ELSE Landed(done, Seek(task.types, task.pos + 1, ecsEnd(sys)), ecsEnd(sys))
       IN /\ componentArrays' =
                [T \in Types |->
                    IF T \in task.types
                    THEN [componentArrays[T] EXCEPT ![task.slot] = Written(part)]
                    ELSE componentArrays[T]]
          /\ \E t \in next : workers' = [workers EXCEPT !.task[part] = t]
    /\ UNCHANGED <<endSlot, nrEntities, entities, componentRanges, everAdded,
                   system, mutated, bounded, ops, ret, TComponents>>

(* ---- full-table iteration: ECSManager::begin / end ---- *)

\* ECSManager::end() returning the end of the vector
end_OfVector == ContainerSize

\* ECSManager::begin(): entities.begin(), as an offset into the vector
begin == 0

\* ECSManager::end(): entities.begin() + endSlot
end == endSlot

\* for (auto &e : ecs) { ... }: the Entity records the loop body is handed; a
\* position at or beyond the vector's length is read outside the storage
RECURSIVE TableWalk(_)
TableWalk(pos) ==
    IF pos = end THEN [status |-> "ok", records |-> <<>>]
    ELSE IF pos >= ContainerSize THEN [status |-> "outside", records |-> <<>>]
    ELSE LET rest == TableWalk(pos + 1)
         IN [status |-> rest.status, records |-> <<entities[pos]>> \o rest.records]

LoopEntities ==
    /\ LET walk == TableWalk(begin)
       IN ret' = Ret("LoopEntities", walk.status, NoId, [records |-> walk.records])
    /\ UNCHANGED store /\ NoMutation

(* ---- the fixed-capacity store (EntityComponentSystem.h) ---- *)
\* Its operations are overloads named Add and Remove; here the entity overloads
\* are BoundedAdd and BoundedRemove, the component overloads
\* BoundedAddComponent and BoundedRemoveComponent.  Helpers take the store
\* record they read, because Add() validates after it has moved endSlot.

BoundedHandles == 0 .. NumberOfSlots

\* ValidateID checking the index against the capacity instead of endSlot
BoundedValidateID_AgainstCapacity(b, index) == index < NumberOfSlots

\* ValidateID(index): throws std::out_of_range when this is false
BoundedValidateID(b, index) == index < b.endSlot /\ ~(b.endSlot >= NumberOfSlots)

\* GetFirstEmptySlot: the scan
RECURSIVE BoundedScanEmptySlot(_, _)
BoundedScanEmptySlot(b, slot) ==
    IF slot < b.endSlot /\ b.entities[slot].active
    THEN BoundedScanEmptySlot(b, slot + 1)
    ELSE slot

\* GetFirstEmptySlot: the slot found and the store with endSlot advanced when
\* the scan stopped at endSlot
BoundedGetFirstEmptySlot(b) ==
    LET slot == BoundedScanEmptySlot(b, 0)
    IN [slot |-> slot,
        ecs |-> IF slot = b.endSlot THEN [b EXCEPT !.endSlot = @ + 1] ELSE b]

\* GetLastSlot
BoundedGetLastSlot(b) == IF b.endSlot = 0 THEN 0 ELSE b.endSlot - 1

\* the fixed-capacity allocator's state, as the caller can observe it
BoundedSnapshot ==
    [endSlot |-> bounded.endSlot, nrEntities |-> bounded.nrEntities,
     active |-> {s \in DOMAIN bounded.entities : bounded.entities[s].active}]

\* when the call made directly before Remove(entityId) was the Add() that
\* returned entityId: what the allocator was before that Add()
BoundedJustCreated(entityId) ==
    IF ret.op = "BoundedAdd" /\ ret.id = entityId THEN <<ret.out.before>> ELSE <<>>

\* EntityID ECSManager::Add()
BoundedAdd ==
    LET found == BoundedGetFirstEmptySlot(bounded)
        slot == found.slot
    IN IF ~BoundedValidateID(found.ecs, slot)
       THEN /\ bounded' = found.ecs
            /\ ret' = Ret("BoundedAdd", "out_of_range", NoId, <<>>)
       ELSE /\ bounded' = [found.ecs EXCEPT
                              !.entities[slot].active = TRUE,
                              !.entities[slot].activeComponents = [T \in Types |-> FALSE],
                              !.nrEntities = @ + 1]
            /\ ret' = Ret("BoundedAdd", "ok", found.ecs.entities[slot].id,
                          [before |-> BoundedSnapshot])

\* void ECSManager::Add(const EntityID &entityId, const TComponent &component)
BoundedAddComponent(T, entityId, component) ==
    IF ~BoundedValidateID(bounded, entityId)
    THEN /\ ret' = Ret("BoundedAddComponent", "out_of_range", NoId, <<>>)
         /\ UNCHANGED bounded
    ELSE IF bounded.entities[entityId].activeComponents[T]
    THEN /\ ret' = Ret("BoundedAddComponent", "logic_error", NoId, <<>>)
         /\ UNCHANGED bounded
    ELSE /\ bounded' = [bounded EXCEPT
                           !.entities[entityId].activeComponents[T] = TRUE,
                           !.componentArrays[T][entityId] = component]
         /\ ret' = Ret("BoundedAddComponent", "ok", entityId, <<>>)

\* void ECSManager::Remove(const EntityID &entityId)
BoundedRemove(entityId) ==
    IF ~BoundedValidateID(bounded, entityId)
    THEN /\ ret' = Ret("BoundedRemove", "out_of_range", NoId, <<>>)
         /\ UNCHANGED bounded
    ELSE IF ~bounded.entities[entityId].active
    THEN /\ ret' = Ret("BoundedRemove", "logic_error", NoId, <<>>)
         /\ UNCHANGED bounded
    ELSE /\ bounded' = [bounded EXCEPT
                           !.entities[entityId].active = FALSE,
                           !.endSlot = IF BoundedGetLastSlot(bounded)
                                            = bounded.entities[entityId].id
                                       THEN @ - 1 ELSE @,
                           !.nrEntities = @ - 1]
         /\ ret' = Ret("BoundedRemove", "ok", entityId,
                       [created |-> BoundedJustCreated(entityId)])

\* template<TComponent> void ECSManager::Remove(const EntityID &entityId)
BoundedRemoveComponent(T, entityId) ==
    IF ~BoundedValidateID(bounded, entityId)
    THEN /\ ret' = Ret("BoundedRemoveComponent", "out_of_range", NoId, <<>>)
         /\ UNCHANGED bounded
    ELSE IF ~bounded.entities[entityId].activeComponents[T]
    THEN /\ ret' = Ret("BoundedRemoveComponent", "logic_error", NoId, <<>>)
         /\ UNCHANGED bounded
    ELSE /\ bounded' = [bounded EXCEPT !.entities[entityId].activeComponents[T] = FALSE]
         /\ ret' = Ret("BoundedRemoveComponent", "ok", entityId, <<>>)

\* bool ECSManager::Has<TEntityComponents...>(entityId): every flag is read
\* through ReadComponent, that is ReadEntity and its ValidateID
BoundedHasOutcome(types, entityId) ==
    IF ~BoundedValidateID(bounded, entityId)
    THEN [status |-> "out_of_range", value |-> FALSE]
    ELSE [status |-> "ok",
          value |-> \A T \in types : bounded.entities[entityId].activeComponents[T]]

BoundedHas(types, entityId) ==
    /\ LET o == BoundedHasOutcome(types, entityId)
       IN ret' = Ret("BoundedHas", o.status, IF o.status = "ok" THEN entityId ELSE NoId,
                     [value |-> o.value])
    /\ UNCHANGED bounded

\* TComponent &ECSManager::Get<TComponent>(entityId)
BoundedGetOutcome(T, entityId) ==
    IF ~BoundedValidateID(bounded, entityId)
    THEN [status |-> "out_of_range", value |-> DefaultValue]
    ELSE IF ~bounded.entities[entityId].activeComponents[T]
    THEN [status |-> "invalid_argument", value |-> DefaultValue]
    ELSE [status |-> "ok", value |-> bounded.componentArrays[T][entityId]]

BoundedGet(T, entityId) ==
    /\ LET o == BoundedGetOutcome(T, entityId)
       IN ret' = Ret("BoundedGet", o.status, IF o.status = "ok" THEN entityId ELSE NoId,
                     [type |-> T, value |-> o.value])
    /\ UNCHANGED bounded

(* ---- the specifications ---- *)

CallWithin(bound, A) ==
    ops < bound /\ ops' = ops + 1 /\ A /\ UNCHANGED <<bounded, TComponents>>

StoreCall(bound) ==
    \/ CallWithin(bound, AddEntity)
    \/ \E T \in Types, h \in Handles, v \in Values : CallWithin(bound, Add(T, h, v))
    \/ \E h \in Handles : CallWithin(bound, RemoveEntity(h))
    \/ \E T \in Types, h \in Handles : CallWithin(bound, Remove(T, h))

\* the store driven by one caller that loops over views it constructs on the spot
Next ==
    \/ StoreCall(MaxOps)
    \/ \E types \in TypeSets, totalParts \in 1 .. MaxParts :
          CallWithin(MaxOps, LoopParts(types, totalParts))

Spec == Init /\ [][Next]_vars

\* the store driven by one caller that keeps a System object across its calls
NextHeld ==
    \/ StoreCall(MaxHeldOps)
    \/ \E types \in TypeSets, totalParts \in 1 .. MaxParts, part \in 0 .. MaxParts - 1 :
          part < totalParts /\ CallWithin(MaxHeldOps, GetSystemPart(types, part, totalParts))
    \/ CallWithin(MaxHeldOps, Iterate)

SpecHeld == Init /\ [][NextHeld]_vars

\* the structure is built by one caller and then frozen while the tasks run
NextPar ==
    \/ ~workers.started /\ StoreCall(MaxBuildOps)
    \/ \E types \in TypeSets, totalParts \in 1 .. MaxParts : StartParallel(types, totalParts)
    \/ \E part \in 0 .. MaxParts - 1 : TaskBegin(part)
    \/ \E part \in 0 .. MaxParts - 1 : TaskBody(part)

SpecPar == Init /\ [][NextPar]_vars

\* the store driven by one caller that also builds entities in one call and
\* reads components back
NextAccess ==
    \/ StoreCall(MaxAccessOps)
    \/ \E args \in BuildArgs : CallWithin(MaxAccessOps, BuildEntity(args))
    \/ \E T \in Types, h \in Handles : CallWithin(MaxAccessOps, Get(T, h))
    \/ \E types \in TypeSets, h \in Handles : CallWithin(MaxAccessOps, HasCall(types, h))
    \/ \E h \in Handles : CallWithin(MaxAccessOps, HasEntity(h))

SpecAccess == Init /\ [][NextAccess]_vars

\* one call on the fixed-capacity store; the growable store is another object
BoundedCallWithin(bound, A) ==
    /\ ops < bound /\ ops' = ops + 1 /\ A
    /\ UNCHANGED <<TComponents, store, system, mutated, workers>>

BoundedCall(bound) ==
    \/ BoundedCallWithin(bound, BoundedAdd)
    \/ \E T \in Types, h \in BoundedHandles, v \in Values :
          BoundedCallWithin(bound, BoundedAddComponent(T, h, v))
    \/ \E h \in BoundedHandles : BoundedCallWithin(bound, BoundedRemove(h))
    \/ \E T \in Types, h \in BoundedHandles :
          BoundedCallWithin(bound, BoundedRemoveComponent(T, h))
    \/ \E types \in TypeSets, h \in BoundedHandles :
          BoundedCallWithin(bound, BoundedHas(types, h))
    \/ \E T \in Types, h \in BoundedHandles :
          BoundedCallWithin(bound, BoundedGet(T, h))

\* the fixed-capacity store driven by one caller
NextBounded == BoundedCall(MaxBoundedOps)

SpecBounded == Init /\ [][NextBounded]_vars

\* a growable store and a fixed-capacity store, each driven by its caller
NextStores ==
    \/ StoreCall(MaxStoresOps)
    \/ BoundedCall(MaxStoresOps)

SpecStores == Init /\ [][NextStores]_vars

\* the store driven by one caller whose loops over a view assign through the
\* tuples they are handed
NextWrite ==
    \/ StoreCall(MaxWriteOps)
    \/ \E typeSeq \in TypeSeqs, k \in 1 .. 2, v \in Values :
          k <= Len(typeSeq) /\ CallWithin(MaxWriteOps, ForEachAssign(typeSeq, k, v))

SpecWrite == Init /\ [][NextWrite]_vars

\* a store declared with EntityID among its types, driven by one caller that
\* leaves the EntityID components to the store: it adds, removes and builds
\* with the other types only, and loops over views that include EntityID
NextTagged ==
    \/ CallWithin(MaxTaggedOps, AddEntity)
    \/ \E T \in Types \ {"EntityID"}, h \in Handles, v \in Values :
          CallWithin(MaxTaggedOps, Add(T, h, v))
    \/ \E h \in Handles : CallWithin(MaxTaggedOps, RemoveEntity(h))
    \/ \E T \in Types \ {"EntityID"}, h \in Handles :
          CallWithin(MaxTaggedOps, Remove(T, h))
    \/ \E args \in BuildArgs :
          /\ \A i \in 1 .. Len(args) : args[i].type # "EntityID"
          /\ CallWithin(MaxTaggedOps, BuildEntity(args))
    \/ \E types \in TypeSets, totalParts \in 1 .. MaxParts :
          /\ "EntityID" \in types
          /\ CallWithin(MaxTaggedOps, LoopParts(types, totalParts))

SpecTagged == InitTagged /\ [][NextTagged]_vars

\* the store driven by one caller that loops over the entity table itself
NextTable ==
    \/ StoreCall(MaxTableOps)
    \/ CallWithin(MaxTableOps, LoopEntities)

SpecTable == Init /\ [][NextTable]_vars

(* ---- what the views are expected to visit ---- *)

\* the slots of the frontier that are active and have every requested type
Matching(types) ==
    {s \in 0 .. endSlot - 1 :
        entities[s].active /\ \A T \in types : entities[s].activeComponents[T]}

\* the elements of a set of slots in ascending order
RECURSIVE Ascending(_)
Ascending(S) ==
    IF S = {} THEN <<>>
    ELSE LET least == CHOOSE x \in S : \A y \in S : x <= y
         IN <<least>> \o Ascending(S \ {least})

\* how often a slot occurs among the slots a run of LoopParts was handed
RECURSIVE Visits(_, _)
Visits(run, s) ==
    IF run = <<>> THEN 0
    ELSE Cardinality({i \in 1 .. Len(Head(run).yield) : Head(run).yield[i] = s})
         + Visits(Tail(run), s)

\* the share of the frontier that part `part` of `totalParts` is to cover:
\* floor(endSlot / totalParts) slots each, the remainder going to the last part
PartitionSlots(part, totalParts) ==
    LET n == endSlot \div totalParts
    IN IF part = totalParts - 1
       THEN part * n .. endSlot - 1
       ELSE part * n .. (part + 1) * n - 1

AddEntityStep == ops' = ops + 1 /\ ret'.op = "AddEntity"
RemoveEntityStep == ops' = ops + 1 /\ ret'.op = "RemoveEntity" /\ ret'.status = "ok"
FreeSlots == {i \in 0 .. endSlot - 1 : ~entities[i].active}

(* ---- the claims ---- *)

\* C1: iterating GetSystem<Ts...>() (part 0 of 1) from begin() to end() is handed
\* exactly the slots of [0, endSlot) that are active and have every requested
\* type, each once, in ascending slot order, whatever calls came before.
C1_FullViewVisitsMatching ==
    (ret.op = "LoopParts" /\ ret.out.totalParts = 1)
        => /\ ret.status = "ok"
           /\ Len(ret.out.parts) = 1
           /\ ret.out.parts[1].yield = Ascending(Matching(ret.out.types))

\* C2: for every totalParts and every requested type set, the parts 0 ..
\* totalParts-1 of GetSystemPart together visit every matching slot exactly
\* once and no other slot.
C2_PartsCoverMatchingOnce ==
    ret.op = "LoopParts"
        => /\ ret.status = "ok"
           /\ \A s \in DOMAIN entities :
                 Visits(ret.out.parts, s) = IF s \in Matching(ret.out.types) THEN 1 ELSE 0

\* C3: with the structure frozen, the tasks iterating distinct parts never touch
\* the same slot, and once all have finished the columns hold what running the
\* parts one after another (part 0 first) leaves in them.
C3_PartsTouchDisjointSlots ==
    workers.started
        => /\ \A p, q \in DOMAIN workers.task :
                 p # q => workers.task[p].touched \cap workers.task[q].touched = {}
           /\ (\A p \in DOMAIN workers.task : workers.task[p].pc \notin {"start", "body"})
                 => \A T \in Types, s \in DOMAIN entities :
                       LET by == {p \in DOMAIN workers.task :
                                     T \in workers.task[p].types /\ s \in workers.task[p].touched}
                       IN componentArrays[T][s] =
                             IF by = {} THEN workers.before[T][s]
                             ELSE Written(MaxOf(by, 0))

\* C4: every tuple a view hands out belongs to a slot that is active and has
\* every requested type present (never a removed entity's slot), and
\* dereferencing never raises the not-present error.
C4_YieldedSlotsAreLive ==
    ret.op = "LoopParts"
        => /\ ret.status # "invalid_argument"
           /\ \A i \in 1 .. Len(ret.out.parts) :
                 \A j \in 1 .. Len(ret.out.parts[i].yield) :
                    ret.out.parts[i].yield[j] \in Matching(ret.out.types)

\* C5: AddEntity returns the smallest inactive index of [0, endSlot) and leaves
\* endSlot alone; only when every slot of [0, endSlot) is active does it return
\* endSlot and advance the frontier by exactly one.
C5_AddEntityReturnsLowestFree ==
    [][AddEntityStep
         => IF FreeSlots = {}
            THEN ret'.id = endSlot /\ endSlot' = endSlot + 1
            ELSE /\ ret'.id \in FreeSlots
                 /\ \A i \in FreeSlots : ret'.id <= i
                 /\ endSlot' = endSlot]_vars

\* C5, its case: two holes lie below an active slot and AddEntity has just
\* filled the lower one, leaving the higher one for the next creation.
C5_Witness ==
    /\ ret.op = "AddEntity" /\ ret.id = 0
    /\ endSlot = 3
    /\ ~entities[1].active /\ entities[2].active

\* C6: for every declared type T, every slot on which Add<T> has ever succeeded
\* lies inside T's tracked interval [firstSlot, lastSlot].
C6_AddedSlotsInsideRange ==
    \A T \in Types : \A s \in everAdded[T] :
        /\ componentRanges[T].firstSlot <= s
        /\ s <= componentRanges[T].lastSlot

\* C7: for every declared type T, once componentPresent is true,
\* firstSlot <= lastSlot.
C7_RangeIsOrdered ==
    \A T \in Types :
        componentRanges[T].componentPresent
            => componentRanges[T].firstSlot <= componentRanges[T].lastSlot

\* C8 as stated: removing the highest-indexed active entity decreases endSlot,
\* and the AddEntity that follows returns that same index, also when a lower
\* slot is a hole.
C8_HighestRemovalReclaimed ==
    [][/\ (RemoveEntityStep /\ \A i \in DOMAIN entities : entities[i].active => i <= ret'.id)
            => endSlot' < endSlot
       /\ (AddEntityStep /\ JustRemoved # NoId
             /\ \A i \in DOMAIN entities : entities[i].active => i < JustRemoved)
            => ret'.id = JustRemoved]_vars

\* C8 amended: removing the entity in the tail slot endSlot-1 decreases endSlot
\* by one, and the AddEntity that follows returns that same index when no lower
\* slot is a hole, and the lowest hole otherwise.
C8_TailRemovalReclaimed ==
    [][/\ (RemoveEntityStep /\ ret'.id = endSlot - 1) => endSlot' = endSlot - 1
       /\ (AddEntityStep /\ JustRemoved # NoId /\ JustRemoved = endSlot)
            => IF FreeSlots = {}
               THEN ret'.id = JustRemoved /\ endSlot' = JustRemoved + 1
               ELSE ret'.id \in FreeSlots /\ \A i \in FreeSlots : ret'.id <= i]_vars

\* C8, its case: the tail entity was removed and the AddEntity made directly
\* after it has returned the same index.
C8_Witness ==
    /\ ret.op = "AddEntity"
    /\ ret.out.after = ret.id
    /\ ret.id = endSlot - 1
    /\ ret.id > 0

\* C9: a view requested for a type set that no entity matches is constructed
\* without error and its begin() equals its end(): the loop is handed nothing.
C9_NoMatchGivesEmptyView ==
    (ret.op = "LoopParts" /\ Matching(ret.out.types) = {})
        => /\ ret.status = "ok"
           /\ \A i \in 1 .. Len(ret.out.parts) : ret.out.parts[i].yield = <<>>

\* C10: a System constructed before a structural mutation and iterated after it
\* is handed exactly the slots of its part that match in the current state.
C10_HeldViewSeesCurrentState ==
    (ret.op = "Iterate" /\ mutated)
        => /\ ret.status = "end"
           /\ ret.out = Ascending(Matching(system.types)
                                     \cap PartitionSlots(system.part, system.totalParts))

\* C11: when at least one requested type has never been added to any entity,
\* every part of every GetSystemPart view is empty (begin() == end()) for every
\* totalParts, whatever the other requested types' presence and ranges are.
C11_NeverAddedTypeGivesEmptyView ==
    (ret.op = "LoopParts" /\ \E T \in ret.out.types : everAdded[T] = {})
        => /\ ret.status = "ok"
           /\ Len(ret.out.parts) = ret.out.totalParts
           /\ \A i \in 1 .. Len(ret.out.parts) : ret.out.parts[i].yield = <<>>

\* a step that is one call of the fixed-capacity store's Add()
BoundedAddStep == ops' = ops + 1 /\ ret'.op = "BoundedAdd"

\* C12: on the fixed-capacity store, starting from the empty store,
\* NumberOfSlots consecutive entity creations all succeed and return the ids
\* 0 .. NumberOfSlots-1, and only the creation after them fails with
\* std::out_of_range.  (nrEntities = ops: every call so far was a creation
\* that succeeded.)
C12_CreationsUpToCapacitySucceed ==
    [][(BoundedAddStep /\ bounded.nrEntities = ops)
          => IF ops < NumberOfSlots
             THEN ret'.status = "ok" /\ ret'.id = ops
             ELSE ret'.status = "out_of_range"]_vars

\* C14: on the fixed-capacity store, an entity creation that fails with the
\* capacity error leaves endSlot, nrEntities and every slot's active flag and
\* presence flags as they were before the call.
C14_FailedCreationChangesNothing ==
    [][(BoundedAddStep /\ ret'.status = "out_of_range")
          => /\ bounded'.endSlot = bounded.endSlot
             /\ bounded'.nrEntities = bounded.nrEntities
             /\ \A i \in DOMAIN bounded.entities :
                   /\ bounded'.entities[i].active = bounded.entities[i].active
                   /\ bounded'.entities[i].activeComponents
                         = bounded.entities[i].activeComponents]_vars

\* the store proper, without the bookkeeping of the model
storeState == <<endSlot, nrEntities, entities, componentArrays, componentRanges>>

\* C13: whenever Add<T>, Remove<T>, RemoveEntity or Get<T> raises an error, the
\* whole store state (endSlot, nrEntities, every active flag, every presence
\* flag, every column value, every type's range) is what it was before the call.
C13_FailedCallChangesNothing ==
    [][(/\ ops' = ops + 1
        /\ ret'.op \in {"Add", "Remove", "RemoveEntity", "Get"}
        /\ ret'.status # "ok")
          => UNCHANGED storeState]_vars

\* C13, its case: Remove<T> has just thrown on a store that holds an active
\* entity with a component.
C13_Witness ==
    /\ ret.op = "Remove" /\ ret.status = "logic_error"
    /\ \E s \in DOMAIN entities :
          entities[s].active /\ \E T \in Types : HasInternal(T, s)

\* C15: BuildEntity(v1..vn) either creates one entity that carries all n
\* components, each with the value supplied, or raises the error with the
\* store state unchanged; no entity is left with a prefix of the components.
C15_BuildEntityIsAllOrNothing ==
    [][(ops' = ops + 1 /\ ret'.op = "BuildEntity")
          => IF ret'.status = "ok"
             THEN LET id == ret'.id
                      args == ret'.out.args
                  IN /\ entities'[id].active
                     /\ nrEntities' = nrEntities + 1
                     /\ \A T \in Types :
                           entities'[id].activeComponents[T]
                              <=> \E i \in 1 .. Len(args) : args[i].type = T
                     /\ \A i \in 1 .. Len(args) :
                           componentArrays'[args[i].type][id] = args[i].value
             ELSE UNCHANGED storeState]_vars

\* what Has<T> and Get<T> give on a slot of the storage
HasGives(T, s, b) == HasOutcomes({T}, s) = {[status |-> "ok", value |-> b]}
GetGives(T, s, status, v) == GetOutcomes(T, s) = {[status |-> status, value |-> v]}

\* C16: for an active entity E and a type T not present on E, Add<T>(E,v)
\* succeeds and then Has<T>(E) is true and Get<T>(E) returns v; Remove<T>(E)
\* then makes Has<T>(E) false and Get<T>(E) fail with not-present; Remove<T>(E)
\* on E without T (a second Remove) fails with not-present; and the Add<T>(E,v2)
\* that follows succeeds again, Get<T>(E) returning v2.
C16_AddRemoveSymmetry ==
    [][\A T \in Types, E \in DOMAIN entities :
          (ops' = ops + 1 /\ entities[E].active)
             => /\ \A v \in Values :
                      (~HasInternal(T, E) /\ Add(T, E, v))
                         => /\ ret'.status = "ok"
                            /\ HasGives(T, E, TRUE)'
                            /\ GetGives(T, E, "ok", v)'
                /\ (HasInternal(T, E) /\ Remove(T, E))
                      => /\ ret'.status = "ok"
                         /\ HasGives(T, E, FALSE)'
                         /\ GetGives(T, E, "invalid_argument", DefaultValue)'
                /\ (~HasInternal(T, E) /\ Remove(T, E))
                      => ret'.op = "Remove" /\ ret'.status = "logic_error"]_vars

\* C16, its case: Remove<T> has just succeeded on an active entity that had
\* been given T, whose old value is still in the column.
C16_Witness ==
    /\ ret.op = "Remove" /\ ret.status = "ok"
    /\ entities[ret.id].active
    /\ \E T \in Types :
          /\ ret.id \in everAdded[T]
          /\ ~HasInternal(T, ret.id)
          /\ componentArrays[T][ret.id] # DefaultValue

\* C17: Add<T>(e1,v) and Remove<T>(e1) change the presence flag and the column
\* value of the pair (slot e1, type T) only: for every other slot, and for
\* every other type on e1, flags and values are unchanged, and Has<U>(e2) and
\* Get<U>(e2) give what they gave before.
C17_OtherPairsUntouched ==
    [][\A T \in Types, e1 \in DOMAIN entities :
          (ops' = ops + 1 /\ ((\E v \in Values : Add(T, e1, v)) \/ Remove(T, e1)))
             => \A U \in Types, e2 \in DOMAIN entities :
                   (U # T \/ e2 # e1)
                      => /\ entities'[e2].activeComponents[U] = entities[e2].activeComponents[U]
                         /\ componentArrays'[U][e2] = componentArrays[U][e2]
                         /\ HasOutcomes({U}, e2)' = HasOutcomes({U}, e2)
                         /\ GetOutcomes(U, e2)' = GetOutcomes(U, e2)]_vars

\* C17, its case: Add has just given entity e1 its second type while another
\* active entity holds one type and lacks the other.
C17_Witness ==
    /\ ret.op = "Add" /\ ret.status = "ok"
    /\ \A U \in Types : HasInternal(U, ret.id)
    /\ \E e2 \in DOMAIN entities \ {ret.id} :
          /\ entities[e2].active
          /\ \E U \in Types : HasInternal(U, e2)
          /\ \E U \in Types : ~HasInternal(U, e2)

\* C18: immediately after AddEntity returns handle h, Has<T>(h) is false for
\* every declared type T, also when h reuses a slot whose previous occupant had
\* components when it was removed.
C18_NewEntityHasNoComponents ==
    [][AddEntityStep
          => \A T \in Types, h \in DOMAIN entities' :
                h = ret'.id => HasGives(T, h, FALSE)']_vars

\* C18, its case: three calls, the last being the AddEntity that took the slot
\* of the entity removed just before, which had been built with a component.
C18_Witness ==
    /\ ret.op = "AddEntity" /\ ret.out.after = ret.id
    /\ \E T \in Types : ret.id \in everAdded[T] /\ componentArrays[T][ret.id] # DefaultValue
    /\ ops = 3

\* C19: Size() equals the number of slots whose active flag is true; it grows
\* by one on each successful entity creation, shrinks by one on each successful
\* RemoveEntity, and is unchanged by a failed RemoveEntity and by every
\* component operation.
C19_SizeCountsActiveEntities ==
    /\ [](Size = Cardinality({s \in DOMAIN entities : entities[s].active}))
    /\ [][ops' = ops + 1
            => Size' = Size + (CASE ret'.op \in {"AddEntity", "BuildEntity"} -> 1
                                 [] ret'.op = "RemoveEntity" /\ ret'.status = "ok" -> -1
                                 [] OTHER -> 0)]_vars

\* C19, its case: an entity below the frontier has just been removed, so the
\* count is smaller than the frontier.
C19_Witness ==
    /\ ret.op = "RemoveEntity" /\ ret.status = "ok"
    /\ Size = 2 /\ endSlot = 3

\* C20: nrEntities <= endSlot <= capacity in both stores (the entity vector's
\* length in the growable one, NumberOfSlots in the fixed-capacity one), every
\* active slot has an index below endSlot, and nrEntities never underflows.
C20_CountFrontierCapacityOrdered ==
    /\ 0 <= nrEntities /\ nrEntities <= endSlot /\ endSlot <= ContainerSize
    /\ \A s \in DOMAIN entities : entities[s].active => s < endSlot
    /\ 0 <= bounded.nrEntities /\ bounded.nrEntities <= bounded.endSlot
    /\ bounded.endSlot <= NumberOfSlots
    /\ \A s \in DOMAIN bounded.entities : bounded.entities[s].active => s < bounded.endSlot

\* C20, its case: the fixed-capacity store's frontier stands at its capacity
\* after a refused creation, and the growable store's frontier has come back
\* below the vector's length after a removal.
C20_Witness ==
    /\ bounded.endSlot = NumberOfSlots
    /\ endSlot < ContainerSize

\* a handle that is not the sentinel and whose slot is not active: never
\* created, or removed (a removed tail slot lies at or beyond endSlot)
NotActive(h) == h # SIZE_MAX /\ (h \in DOMAIN entities => ~entities[h].active)

\* C21 as stated: RemoveEntity(h) on a handle whose slot is not active fails
\* with the not-active logic error ("Entity not active!") and leaves Size()
\* unchanged, also for a removed tail slot now beyond endSlot.
C21_RemoveInactiveIsNotActiveError ==
    [][\A h \in Handles :
          (ops' = ops + 1 /\ NotActive(h) /\ RemoveEntity(h))
             => ret'.status = "logic_error" /\ Size' = Size]_vars

\* C21 amended: RemoveEntity(h) on a handle whose slot is not active fails and
\* leaves the store unchanged; the error is the not-active std::logic_error
\* when h.id < endSlot, and std::out_of_range (ValidateID, a kind of
\* std::logic_error) when h.id >= endSlot, which is where a removed tail slot
\* and a never-created slot are.
C21_RemoveInactiveFails ==
    [][\A h \in Handles :
          (ops' = ops + 1 /\ NotActive(h) /\ RemoveEntity(h))
             => /\ ret'.op = "RemoveEntity"
                /\ ret'.status = IF h < endSlot THEN "logic_error" ELSE "out_of_range"
                /\ Size' = Size
                /\ UNCHANGED storeState]_vars

\* C21, its case: the store holds a removed tail slot (the vector is longer
\* than the frontier) and a RemoveEntity has just been refused by ValidateID.
C21_Witness ==
    /\ ret.op = "RemoveEntity" /\ ret.status = "out_of_range"
    /\ endSlot < ContainerSize
    /\ ~entities[endSlot].active

\* C22: Add<T>(h,v) on a slot of the frontier fails with the already-present
\* logic error if and only if the presence flag of T at that slot is true, and
\* the failed call overwrites nothing: Get<T>(h) gives what it gave before and
\* the columns and every type's range are unchanged.
C22_AddOnPresentIsRefused ==
    [][\A T \in Types, h \in DOMAIN entities, v \in Values :
          (ops' = ops + 1 /\ h < endSlot /\ Add(T, h, v))
             => IF entities[h].activeComponents[T]
                THEN /\ ret'.op = "Add" /\ ret'.status = "logic_error"
                     /\ GetOutcomes(T, h)' = GetOutcomes(T, h)
                     /\ UNCHANGED <<componentArrays, componentRanges, entities>>
                ELSE ret'.op = "Add" /\ ret'.status = "ok"]_vars

\* C22, its case: Add has just been refused on a store where an active entity
\* holds a component with the largest value a caller writes.
C22_Witness ==
    /\ ret.op = "Add" /\ ret.status = "logic_error"
    /\ \E T \in Types, s \in DOMAIN entities :
          /\ entities[s].active /\ s < endSlot
          /\ HasInternal(T, s)
          /\ componentArrays[T][s] = MaxValue

\* C23: HasEntity(h) fails with out-of-range exactly when h is not the sentinel
\* and h.id is at or beyond the number of slots the store has allocated; for
\* every smaller id it returns that slot's active flag without error, so it
\* returns false for a removed entity, a removed tail entity included.
C23_HasEntityChecksAllocatedSlots ==
    [][\A h \in Handles :
          (ops' = ops + 1 /\ h # SIZE_MAX /\ HasEntity(h))
             => /\ ret'.op = "HasEntity"
                /\ ret'.status = "out_of_range" <=> h >= Cardinality(DOMAIN entities)
                /\ h < Cardinality(DOMAIN entities)
                      => /\ ret'.status = "ok"
                         /\ ret'.out.value = entities[h].active
                /\ UNCHANGED storeState]_vars

\* C23, its case: HasEntity has just returned false for a removed tail entity,
\* whose index is at or beyond endSlot.
C23_Witness ==
    /\ ret.op = "HasEntity" /\ ret.status = "ok"
    /\ ret.out.value = FALSE
    /\ ret.id >= endSlot

\* C24: for a handle h that is not the sentinel and whose id names no slot the
\* store has allocated (h.id >= entity table length), Has<T>(h) returns false
\* without error and Get<T>(h) fails with the not-present error
\* (std::invalid_argument); neither reads outside the allocated storage.
C24_UnallocatedHandleIsAbsent ==
    [][\A T \in Types, h \in Handles :
          (ops' = ops + 1 /\ h # SIZE_MAX /\ h >= Cardinality(DOMAIN entities))
             => /\ HasCall({T}, h) => ret'.status = "ok" /\ ret'.out.value = FALSE
                /\ Get(T, h) => ret'.status = "invalid_argument"]_vars

\* C25: on the fixed-capacity store, Has<T...>(h) and Get<T>(h) on a handle
\* whose id is at or beyond endSlot fail with the out-of-range error instead of
\* returning a value, and change no state.
C25_BoundedReadsRefuseBeyondFrontier ==
    [][\A types \in TypeSets, h \in BoundedHandles :
          (ops' = ops + 1 /\ h >= bounded.endSlot)
             => /\ BoundedHas(types, h)
                      => ret'.status = "out_of_range" /\ bounded' = bounded
                /\ \A T \in types :
                      BoundedGet(T, h)
                         => ret'.status = "out_of_range" /\ bounded' = bounded]_vars

\* C25, its case: a read has just been refused while the slot at the frontier
\* (a removed tail entity's) still has a presence flag set and the store is
\* not at its capacity.
C25_Witness ==
    /\ ret.op \in {"BoundedHas", "BoundedGet"} /\ ret.status = "out_of_range"
    /\ bounded.endSlot < NumberOfSlots
    /\ \E T \in Types : bounded.entities[bounded.endSlot].activeComponents[T]

\* a step that is one of the handle-taking operations called with handle h
CalledWith(h) ==
    \/ \E T \in Types, v \in Values : Add(T, h, v)
    \/ \E T \in Types : Remove(T, h)
    \/ RemoveEntity(h)
    \/ HasEntity(h)
    \/ \E types \in TypeSets : HasCall(types, h)
    \/ \E T \in Types : Get(T, h)

\* C26: a handle is valid iff its id differs from the sentinel SIZE_MAX (the id
\* of a default-constructed handle), and Add<T>, Remove<T>, RemoveEntity,
\* HasEntity, Has<T> and Get<T> called with the sentinel handle fail with a
\* logic error, reading and changing no state.
C26_SentinelHandleIsRefused ==
    [][/\ \A h \in Handles : ValidEntityID(h) <=> h # SIZE_MAX
       /\ ~ValidEntityID(NoId)
       /\ (ops' = ops + 1 /\ CalledWith(SIZE_MAX))
             => /\ ret'.status = "logic_error"
                /\ UNCHANGED storeState]_vars

\* C26, its case: a call has just been refused with a logic error on the empty
\* store, where the sentinel is the only reason a call can give that error.
C26_Witness ==
    /\ ret.status = "logic_error"
    /\ ret.op \in {"Add", "Remove", "RemoveEntity", "HasEntity", "Has", "Get"}
    /\ ContainerSize = 0

\* C30: Remove<T> and RemoveEntity never change any type's range; Remove<T>(h)
\* changes only the presence flag of T at h, from present to absent, and leaves
\* the column value, every other flag, the active flags, endSlot and nrEntities;
\* RemoveEntity leaves every presence flag and every column value.
C30_RemovalsKeepRanges ==
    [][\A h \in Handles :
          ops' = ops + 1
             => /\ \A T \in Types :
                      Remove(T, h)
                         => /\ componentRanges' = componentRanges
                            /\ componentArrays' = componentArrays
                            /\ endSlot' = endSlot /\ nrEntities' = nrEntities
                            /\ DOMAIN entities' = DOMAIN entities
                            /\ \A s \in DOMAIN entities :
                                  /\ entities'[s].active = entities[s].active
                                  /\ \A U \in Types :
                                        <<s, U>> # <<h, T>>
                                           => entities'[s].activeComponents[U]
                                                 = entities[s].activeComponents[U]
                            /\ ret'.status = "ok"
                                  => /\ entities[h].activeComponents[T]
                                     /\ ~entities'[h].activeComponents[T]
                /\ RemoveEntity(h)
                      => /\ componentRanges' = componentRanges
                         /\ componentArrays' = componentArrays
                         /\ \A s \in DOMAIN entities :
                               entities'[s].activeComponents
                                  = entities[s].activeComponents]_vars

\* C30, its case: Remove<T> has just succeeded on a slot inside T's range whose
\* column still holds the value that was added, or RemoveEntity has just
\* succeeded on an entity that carries a component inside its type's range.
C30_Witness ==
    /\ ret.status = "ok" /\ ret.id \in DOMAIN entities
    /\ \E T \in Types :
          /\ componentRanges[T].componentPresent
          /\ componentRanges[T].firstSlot <= ret.id
          /\ ret.id <= componentRanges[T].lastSlot
          /\ componentArrays[T][ret.id] # DefaultValue
          /\ \/ ret.op = "Remove" /\ ~entities[ret.id].activeComponents[T]
             \/ /\ ret.op = "RemoveEntity" /\ entities[ret.id].activeComponents[T]
                /\ ~entities[ret.id].active

\* C28: when the frontier is not empty and every slot of it is active and has every requested type,
\* part p < totalParts-1 of GetSystemPart visits exactly the slots
\* [p*floor(endSlot/totalParts), (p+1)*floor(endSlot/totalParts)) and the last
\* part visits [(totalParts-1)*floor(endSlot/totalParts), endSlot), in ascending
\* order; with totalParts > endSlot every part but the last is empty.
C28_PartsAreEqualShares ==
    (/\ ret.op = "LoopParts"
     /\ endSlot > 0
     /\ Matching(ret.out.types) = 0 .. endSlot - 1)
        => /\ ret.status = "ok"
           /\ Len(ret.out.parts) = ret.out.totalParts
           /\ \A p \in 0 .. ret.out.totalParts - 1 :
                 ret.out.parts[p + 1].yield
                    = Ascending(PartitionSlots(p, ret.out.totalParts))

\* C29: the tuple a view hands out for a slot holds references to that slot's
\* column entries in the order the types were requested: a value assigned
\* through the k-th element lands in the column of the k-th requested type at
\* that slot, is what Get of that type then returns there, and changes no other
\* slot, no other type's column, no flag, no range and no counter.
C29_TupleRefersToColumnsInOrder ==
    [][\A typeSeq \in TypeSeqs, k \in 1 .. 2, v \in Values :
          (ops' = ops + 1 /\ k <= Len(typeSeq) /\ ForEachAssign(typeSeq, k, v))
             => LET T == typeSeq[k]
                    handed == {ret'.out.yield[n] : n \in 1 .. Len(ret'.out.yield)}
                IN /\ \A s \in DOMAIN entities :
                         s \in handed
                            => /\ componentArrays'[T][s] = v
                               /\ GetGives(T, s, "ok", v)'
                   /\ \A U \in Types, s \in DOMAIN entities :
                         (U # T \/ s \notin handed)
                            => componentArrays'[U][s] = componentArrays[U][s]
                   /\ handed \subseteq DOMAIN entities
                   /\ entities' = entities
                   /\ componentRanges' = componentRanges
                   /\ endSlot' = endSlot /\ nrEntities' = nrEntities]_vars

\* C29, its case: a loop over a view of two types has just ended after it
\* assigned through the second element of each tuple, and at a slot it was
\* handed the second type's column holds the value and the first type's does not.
C29_Witness ==
    /\ ret.op = "ForEachAssign" /\ ret.status = "ok"
    /\ Len(ret.out.types) = 2 /\ ret.out.index = 2
    /\ Len(ret.out.yield) > 0
    /\ componentArrays[ret.out.types[2]][ret.out.yield[1]] = ret.out.value
    /\ componentArrays[ret.out.types[1]][ret.out.yield[1]] # ret.out.value

\* C27: in a store declared with EntityID among its component types, every
\* entity returned by AddEntity or BuildEntity has the EntityID component
\* present with its own handle as value, and a view that includes EntityID
\* hands out, for every slot it visits, the id of that slot, for which HasEntity
\* is true.
C27_ViewsYieldOwnLiveIds ==
    "EntityID" \in Types
        => /\ (ret.op \in {"AddEntity", "BuildEntity"} /\ ret.status = "ok")
                 => /\ entities[ret.id].activeComponents["EntityID"]
                    /\ componentArrays["EntityID"][ret.id] = ret.id
           /\ (ret.op = "LoopParts" /\ "EntityID" \in ret.out.types)
                 => \A p \in 1 .. Len(ret.out.parts) :
                       \A n \in 1 .. Len(ret.out.parts[p].yield) :
                          LET s == ret.out.parts[p].yield[n]
                              id == componentArrays["EntityID"][s]
                          IN /\ id = s
                             /\ HasEntityOutcome(id) = [status |-> "ok", value |-> TRUE]

\* C31: RemoveEntity(h), in either store, changes only the slot's active flag,
\* nrEntities and possibly endSlot: the presence flags and column values of the
\* removed slot and all state of every other slot are unchanged by it, and the
\* removed slot keeps them through every later call that is not a component
\* call on that very slot, until AddEntity reuses the slot.
C31_RemoveEntityKeepsComponents ==
    [][ops' = ops + 1
          => /\ \A h \in Handles :
                   (RemoveEntity(h) /\ ret'.status = "ok")
                      => /\ componentArrays' = componentArrays
                         /\ componentRanges' = componentRanges
                         /\ entities' = [entities EXCEPT ![h].active = FALSE]
                         /\ nrEntities' = nrEntities - 1
                         /\ endSlot' \in {endSlot, endSlot - 1}
             /\ \A h \in BoundedHandles :
                   (BoundedRemove(h) /\ ret'.status = "ok")
                      => /\ bounded'.componentArrays = bounded.componentArrays
                         /\ bounded'.entities
                               = [bounded.entities EXCEPT ![h].active = FALSE]
                         /\ bounded'.nrEntities = bounded.nrEntities - 1
                         /\ bounded'.endSlot \in {bounded.endSlot, bounded.endSlot - 1}
             /\ \A s \in DOMAIN entities :
                   (/\ ~entities[s].active /\ ~entities'[s].active
                    /\ ~(ret'.op \in {"Add", "Remove"} /\ ret'.id = s))
                      => /\ entities'[s].activeComponents = entities[s].activeComponents
                         /\ \A T \in Types :
                               componentArrays'[T][s] = componentArrays[T][s]
             /\ \A s \in DOMAIN bounded.entities :
                   (/\ ~bounded.entities[s].active /\ ~bounded'.entities[s].active
                    /\ ~(/\ ret'.op \in {"BoundedAddComponent", "BoundedRemoveComponent"}
                         /\ ret'.id = s))
                      => /\ bounded'.entities[s].activeComponents
                               = bounded.entities[s].activeComponents
                         /\ \A T \in Types :
                               bounded'.componentArrays[T][s]
                                  = bounded.componentArrays[T][s]]_vars

\* C31, its case: RemoveEntity has just succeeded on an entity that carried a
\* component, and the removed slot still has the presence flag and the value.
C31_Witness ==
    /\ ret.op = "RemoveEntity" /\ ret.status = "ok"
    /\ ~entities[ret.id].active
    /\ \E T \in Types :
          /\ entities[ret.id].activeComponents[T]
          /\ componentArrays[T][ret.id] # DefaultValue

\* C32: iterating the manager itself from begin() to end() is handed exactly
\* the entity records of slots 0 .. endSlot-1 in ascending order, inactive holes
\* included: as many records as endSlot (not Size()), each with its slot index
\* as id, and one record fewer after the tail entity was removed.
C32_TableLoopVisitsFrontier ==
    [][ops' = ops + 1
          => /\ LoopEntities
                   => /\ ret'.status = "ok"
                      /\ Len(ret'.out.records) = endSlot
                      /\ \A i \in 1 .. Len(ret'.out.records) :
                            /\ ret'.out.records[i] = entities[i - 1]
                            /\ ret'.out.records[i].id = i - 1
             /\ \A h \in Handles :
                   (RemoveEntity(h) /\ ret'.status = "ok" /\ h = endSlot - 1)
                      => Len(TableWalk(begin).records)'
                            = Len(TableWalk(begin).records) - 1]_vars

\* C32, its case: the loop has just run over a frontier with an inactive hole
\* below a removed tail, so that endSlot differs from Size() and from the
\* length of the table.
C32_Witness ==
    /\ ret.op = "LoopEntities" /\ ret.status = "ok"
    /\ Len(ret.out.records) > 0
    /\ \E i \in 1 .. Len(ret.out.records) : ~ret.out.records[i].active
    /\ endSlot # nrEntities
    /\ endSlot < ContainerSize

\* C33 as stated: AddEntity returning h followed immediately by RemoveEntity(h)
\* restores endSlot, nrEntities and every slot's active flag to their values
\* before the pair, in the growable and in the fixed-capacity store.
C33_CreateRemoveRestores ==
    /\ (ret.op = "RemoveEntity" /\ ret.status = "ok" /\ ret.out.created # <<>>)
          => Snapshot = ret.out.created[1]
    /\ (ret.op = "BoundedRemove" /\ ret.status = "ok" /\ ret.out.created # <<>>)
          => BoundedSnapshot = ret.out.created[1]

\* C33 amended: the pair restores nrEntities and every slot's active flag, and
\* leaves endSlot where it was, except that it ends one lower when the slot
\* AddEntity took was an inactive slot at endSlot-1; so the pair never advances
\* the frontier.
C33_CreateRemoveNeverAdvances ==
    /\ (ret.op = "RemoveEntity" /\ ret.status = "ok" /\ ret.out.created # <<>>)
          => LET before == ret.out.created[1]
             IN /\ nrEntities = before.nrEntities
                /\ Snapshot.active = before.active
                /\ endSlot = IF ret.id = before.endSlot - 1
                             THEN before.endSlot - 1 ELSE before.endSlot
    /\ (ret.op = "BoundedRemove" /\ ret.status = "ok" /\ ret.out.created # <<>>)
          => LET before == ret.out.created[1]
             IN /\ bounded.nrEntities = before.nrEntities
                /\ BoundedSnapshot.active = before.active
                /\ bounded.endSlot = IF ret.id = before.endSlot - 1
                                     THEN before.endSlot - 1 ELSE before.endSlot

\* C33, its case: the pair has just been made in a state whose slot endSlot-1
\* was inactive, AddEntity took that slot, and the frontier ended one lower.
C33_Witness ==
    /\ ret.op = "RemoveEntity" /\ ret.status = "ok" /\ ret.out.created # <<>>
    /\ ret.id = ret.out.created[1].endSlot - 1
    /\ endSlot = ret.out.created[1].endSlot - 1
    /\ nrEntities = ret.out.created[1].nrEntities

\* C34: in the growable store, after every operation each component column has
\* exactly the length of the entity table; AddEntity (also inside BuildEntity)
\* grows the table and every column by exactly one element only when the slot
\* it takes equals the previous table length, and no operation shrinks them.
C34_ColumnsGrowInLockstep ==
    [][/\ \A T \in Types : DOMAIN componentArrays'[T] = DOMAIN entities'
       /\ DOMAIN entities \subseteq DOMAIN entities'
       /\ DOMAIN entities' = 0 .. ContainerSize' - 1
       /\ ContainerSize' =
             IF /\ ops' = ops + 1
                /\ ret'.op \in {"AddEntity", "BuildEntity"}
                /\ Created.slot = ContainerSize
             THEN ContainerSize + 1
             ELSE ContainerSize]_vars

\* C34, its case: AddEntity has just taken a hole below the frontier, and the
\* table and the columns are as long as the frontier was before the call.
C34_Witness ==
    /\ ret.op = "AddEntity"
    /\ ret.id + 1 < endSlot
    /\ ContainerSize = ret.out.before.endSlot
    /\ \A T \in Types : Cardinality(DOMAIN componentArrays[T]) = ContainerSize

C36_TailShrinksByOne ==
    [][\A h \in Handles :
          (ops' = ops + 1 /\ RemoveEntity(h))
             => endSlot' = IF ret'.status = "ok" /\ h = endSlot - 1
                           THEN endSlot - 1
                           ELSE endSlot]_vars

\* C36, its case: the tail entity has just been removed while the slot below
\* it was already inactive, and the frontier still covers that slot.
C36_Witness ==
    /\ ret.op = "RemoveEntity" /\ ret.status = "ok"
    /\ ret.id = endSlot
    /\ endSlot > 0
    /\ ~entities[endSlot - 1].active

\* C37: in every reachable state, for every requested type set, every
\* totalParts >= 1 and every part below it, the view's start position is at
\* most its end position and both lie within the entity table, so the walk from
\* begin() reaches end() and examines no slot index outside the storage.
C37_ViewStaysInsideStorage ==
    \A types \in TypeSets, totalParts \in 1 .. MaxParts, part \in 0 .. MaxParts - 1 :
       LET sys == NewSystem(types, part, totalParts)
       IN (/\ part < totalParts
           /\ ValidateInvariant(sys.componentRangesMatch)
           /\ sys.componentRangesMatch.found)
             => /\ 0 <= ecsBegin(sys)
                /\ ecsBegin(sys) <= ecsEnd(sys)
                /\ ecsEnd(sys) <= ContainerSize
                /\ Walk(sys).status = "end"

\* C38: AddEntity never returns the id of an entity that is active at the time
\* of the call, in either store, so in every reachable state no two live
\* entities share a handle and the handles of the live entities are exactly the
\* indices of the active slots.
C38_LiveHandlesAreActiveSlots ==
    [][ops' = ops + 1
          => /\ (ret'.op = "AddEntity" /\ ret'.status = "ok")
                   => /\ ret'.id \notin Snapshot.active
                      /\ Snapshot'.active = Snapshot.active \cup {ret'.id}
                      /\ entities'[ret'.id].id = ret'.id
             /\ (ret'.op = "BoundedAdd" /\ ret'.status = "ok")
                   => /\ ret'.id \notin BoundedSnapshot.active
                      /\ BoundedSnapshot'.active = BoundedSnapshot.active \cup {ret'.id}
                      /\ bounded'.entities[ret'.id].id = ret'.id
             /\ (ret'.op = "RemoveEntity" /\ ret'.status = "ok")
                   => Snapshot'.active = Snapshot.active \ {ret'.id}
             /\ (ret'.op = "BoundedRemove" /\ ret'.status = "ok")
                   => BoundedSnapshot'.active = BoundedSnapshot.active \ {ret'.id}
             /\ ~(ret'.op \in {"AddEntity", "RemoveEntity"})
                   => Snapshot'.active = Snapshot.active
             /\ ~(ret'.op \in {"BoundedAdd", "BoundedRemove"})
                   => BoundedSnapshot'.active = BoundedSnapshot.active]_vars

\* C38, its case: AddEntity has just returned the handle of a slot that an
\* earlier entity had held, while another entity is live.
C38_Witness ==
    /\ ret.op = "AddEntity" /\ ret.status = "ok"
    /\ ret.out.after = ret.id
    /\ Cardinality(Snapshot.active) >= 2
    /\ ret.id \in Snapshot.active

\* C39: in the fixed-capacity store, after an entity creation has failed with
\* the capacity error the store stays usable: the next call of Has<T>, of
\* Get<T> on a present component, of the component Add on an absent one, of the
\* component Remove on a present one, and of the entity Remove succeeds on an
\* existing active entity, and the creation after such a removal succeeds.
C39_UsableAfterFailedCreation ==
    [][\A h \in BoundedHandles, T \in Types, v \in Values :
          (/\ ops' = ops + 1
           /\ h \in DOMAIN bounded.entities
           /\ bounded.entities[h].active)
             => /\ (ret.op = "BoundedAdd" /\ ret.status = "out_of_range")
                      => /\ BoundedHas({T}, h) => ret'.status = "ok"
                         /\ (BoundedGet(T, h) /\ bounded.entities[h].activeComponents[T])
                               => ret'.status = "ok"
                         /\ (/\ BoundedAddComponent(T, h, v)
                             /\ ~bounded.entities[h].activeComponents[T])
                               => ret'.status = "ok"
                         /\ (/\ BoundedRemoveComponent(T, h)
                             /\ bounded.entities[h].activeComponents[T])
                               => ret'.status = "ok"
                         /\ BoundedRemove(h) => ret'.status = "ok"
                /\ (ret.op = "BoundedRemove" /\ ret.status = "ok" /\ BoundedAdd)
                      => ret'.status = "ok"]_vars
====
